---- MODULE Spec2Model ----
(***************************************************************************)
(* A model of scripts/weekly_summary.py: the table renderer tablify_dict,  *)
(* the Trac ticket summarizer, the GitHub pull-request summarizer and the  *)
(* Twisted callback chain of main().                                       *)
(*                                                                         *)
(* Python values are modelled as follows.  A str is a sequence of          *)
(* one-character strings.  A value whose type the code inspects or         *)
(* converts (a table cell, a row key, an optional field) is tagged:        *)
(* [int |-> n], [str |-> s], [none |-> TRUE]; a raised exception is        *)
(* [exc |-> name].                                                         *)
(***************************************************************************)
EXTENDS Integers, Sequences, FiniteSets, TLC

(***************************************************************************)
(* Bounds of the model.                                                    *)
(***************************************************************************)
\* Longest ticket list a Trac query returns in the callback-chain model.
MaxTickets == 1
\* Longest pull-request list the GitHub query returns in that model.
MaxPRs == 1
\* Longest list of opened tickets, and of closed tickets, in the
\* ticket-counting model.
MaxCount == 3
MaxClosed == 1
\* Longest pull-request list in the pull-request classification model.
MaxPulls == 2
\* Most rows of a table in the table-renderer model.
MaxRows == 2

(***************************************************************************)
(* Python values.                                                          *)
(***************************************************************************)
PInt(n) == [int |-> n]
PStr(s) == [str |-> s]
PNone == [none |-> TRUE]
Raised(name) == [exc |-> name]
IsInt(v) == DOMAIN v = {"int"}
IsStr(v) == DOMAIN v = {"str"}
IsNone(v) == DOMAIN v = {"none"}
IsExc(v) == DOMAIN v = {"exc"}

\* The printable ASCII characters in code order, from space (32) to tilde (126);
\* the double quote (34), the backslash (92) and the backtick (96) are held
\* by placeholders.
Ascii == <<" ", "!", "<dquote>", "#", "$", "%", "&", "'", "(", ")", "*", "+", ",", "-", ".", "/", "0", "1", "2", "3", "4", "5", "6", "7", "8", "9", ":", ";", "<", "=", ">", "?", "@", "A", "B", "C", "D", "E", "F", "G", "H", "I", "J", "K", "L", "M", "N", "O", "P", "Q", "R", "S", "T", "U", "V", "W", "X", "Y", "Z", "[", "<backslash>", "]", "^", "_", "<backtick>", "a", "b", "c", "d", "e", "f", "g", "h", "i", "j", "k", "l", "m", "n", "o", "p", "q", "r", "s", "t", "u", "v", "w", "x", "y", "z", "{", "|", "}", "~">>
Ord(c) == 31 + (CHOOSE i \in 1..Len(Ascii) : Ascii[i] = c)
Digits == <<"0", "1", "2", "3", "4", "5", "6", "7", "8", "9">>
DigitVal(c) == (CHOOSE i \in 1..10 : Digits[i] = c) - 1
\* str.upper() and str.lower() of one character.
Upper(c) == IF (\E i \in 66..91 : Ascii[i] = c) THEN Ascii[Ord(c) - 31 - 32] ELSE c
Lower(c) == IF (\E i \in 34..59 : Ascii[i] = c) THEN Ascii[Ord(c) - 31 + 32] ELSE c

\* str.capitalize(): first character upper-cased, the rest lower-cased.
Capitalize(s) == [i \in 1..Len(s) |-> IF i = 1 THEN Upper(s[i]) ELSE Lower(s[i])]

RECURSIVE NatToStr(_)
NatToStr(n) == IF n < 10 THEN <<Digits[n + 1]>>
               ELSE NatToStr(n \div 10) \o <<Digits[(n % 10) + 1]>>
\* str(n) of an int.
IntToStr(n) == IF n < 0 THEN <<"-">> \o NatToStr(-n) ELSE NatToStr(n)
\* str(v) of a tagged value.
StrOf(v) == IF IsInt(v) THEN IntToStr(v.int)
            ELSE IF IsNone(v) THEN <<"N", "o", "n", "e">>
            ELSE v.str

\* c * n for a one-character string c.
Repeat(c, n) == [i \in 1..n |-> c]
Max(a, b) == IF a >= b THEN a ELSE b
\* str.ljust(size) and str.rjust(size): pad with spaces, never truncate.
LJust(s, size) == IF Len(s) >= size THEN s ELSE s \o Repeat(" ", size - Len(s))
RJust(s, size) == IF Len(s) >= size THEN s ELSE Repeat(" ", size - Len(s)) \o s

RECURSIVE Join(_, _)
\* sep.join(parts) for a sequence of strs.
Join(sep, parts) == IF parts = <<>> THEN <<>>
                    ELSE IF Len(parts) = 1 THEN parts[1]
                    ELSE parts[1] \o sep \o Join(sep, Tail(parts))

\* cmp() of two strs: code-point lexicographic order.
RECURSIVE StrLess(_, _)
StrLess(a, b) == IF b = <<>> THEN FALSE
                 ELSE IF a = <<>> THEN TRUE
                 ELSE IF Ord(a[1]) # Ord(b[1]) THEN Ord(a[1]) < Ord(b[1])
                 ELSE StrLess(Tail(a), Tail(b))
\* Python 2 ordering of tagged keys: ints by value, strs lexicographically,
\* an int before any str.
KeyLess(a, b) == IF IsInt(a) /\ IsInt(b) THEN a.int < b.int
                 ELSE IF IsInt(a) THEN TRUE
                 ELSE IF IsInt(b) THEN FALSE
                 ELSE StrLess(a.str, b.str)

RECURSIVE SortedKeys(_)
MinKeyFirst(m, S) == <<m>> \o SortedKeys(S \ {m})
\* sorted(keys) of tagged keys.
SortedKeys(S) ==
    IF S = {} THEN <<>>
    ELSE MinKeyFirst(CHOOSE k \in S : \A o \in S \ {k} : KeyLess(k, o), S)
RECURSIVE SortedStrs(_)
MinStrFirst(m, S) == <<m>> \o SortedStrs(S \ {m})
\* sorted(keys) of strs.
SortedStrs(S) ==
    IF S = {} THEN <<>>
    ELSE MinStrFirst(CHOOSE k \in S : \A o \in S \ {k} : StrLess(k, o), S)
Reverse(s) == [i \in 1..Len(s) |-> s[Len(s) + 1 - i]]
\* sorted(keys, lambda a, b: cmp(b, a)): descending order.
SortedKeysDesc(S) == Reverse(SortedKeys(S))

(***************************************************************************)
(* String constants of the program.                                        *)
(***************************************************************************)
TRAC_BUILDBOT_URL == <<"h", "t", "t", "p", ":", "/", "/", "t", "r", "a", "c", ".", "b", "u", "i", "l", "d", "b", "o", "t", ".", "n", "e", "t">>
s_Opened == <<"O", "p", "e", "n", "e", "d">>
s_Closed == <<"C", "l", "o", "s", "e", "d">>
s_Completed == <<"C", "o", "m", "p", "l", "e", "t", "e", "d">>
s_Github == <<"G", "i", "t", "h", "u", "b">>
s_trac == <<"t", "r", "a", "c">>
s_github == <<"g", "i", "t", "h", "u", "b">>
s_Enhancements == <<"E", "n", "h", "a", "n", "c", "e", "m", "e", "n", "t", "s">>
s_Defects == <<"D", "e", "f", "e", "c", "t", "s">>
s_Tasks == <<"T", "a", "s", "k", "s">>
s_Regressions == <<"R", "e", "g", "r", "e", "s", "s", "i", "o", "n", "s">>
s_Undecideds == <<"U", "n", "d", "e", "c", "i", "d", "e", "d", "s">>
s_Other == <<"O", "t", "h", "e", "r">>
s_Total == <<"T", "o", "t", "a", "l">>
s_id == <<"i", "d">>
s_summary == <<"s", "u", "m", "m", "a", "r", "y">>
s_type == <<"t", "y", "p", "e">>
s_url == <<"u", "r", "l">>
s_number == <<"n", "u", "m", "b", "e", "r">>
s_title == <<"t", "i", "t", "l", "e">>
s_html_url == <<"h", "t", "m", "l", "_", "u", "r", "l">>
s_open == <<"o", "p", "e", "n">>
s_closed == <<"c", "l", "o", "s", "e", "d">>
s_Ticket_Summary == <<"T", "i", "c", "k", "e", "t", " ", "S", "u", "m", "m", "a", "r", "y">>
s_New_Reopened_Tickets == <<"N", "e", "w", "/", "R", "e", "o", "p", "e", "n", "e", "d", " ", "T", "i", "c", "k", "e", "t", "s">>
s_Closed_Tickets == <<"C", "l", "o", "s", "e", "d", " ", "T", "i", "c", "k", "e", "t", "s">>
s_Pull_Requests == <<" ", "P", "u", "l", "l", " ", "R", "e", "q", "u", "e", "s", "t", "s">>
s_msg_trac_head == <<"T", "r", "a", "c", " ", "T", "i", "c", "k", "e", "t", "s", "\n", "=", "=", "=", "=", "=", "=", "=", "=", "=", "=", "=", "=", "\n">>
s_msg_github_head == <<"\n", "\n", "\n", "G", "i", "t", "H", "u", "b", " ", "P", "u", "l", "l", " ", "R", "e", "q", "u", "e", "s", "t", "s", "\n", "=", "=", "=", "=", "=", "=", "=", "=", "=", "=", "=", "=", "=", "=", "=", "=", "=", "=", "=", "=", "\n">>
TRAC_BUILDBOT_TICKET_URL(ticket) ==
    TRAC_BUILDBOT_URL \o <<"/", "t", "i", "c", "k", "e", "t", "/">> \o ticket

(***************************************************************************)
(* tablify_dict.  d maps tagged row keys to mappings from column names     *)
(* (strs) to tagged values.  row_order, col_order and field_formatter are  *)
(* PNone when left at their default, else [seq |-> order] and              *)
(* [fn |-> name].                                                          *)
(***************************************************************************)
\* The default formatter: right-justify under a named column, left-justify
\* the row-key column.  c.rjust / c.ljust exist only on a str.
default_formatter(c, size, header) ==
    IF ~IsStr(c) THEN Raised("AttributeError")
    ELSE IF header # <<>> THEN PStr(RJust(c.str, size))
    ELSE PStr(LJust(c.str, size))

\* The itemized lists' formatter: left-justify, and None for the row-key
\* column so that it is skipped.
bug_list_formatter(c, size, header) ==
    IF header # <<>>
    THEN IF ~IsStr(c) THEN Raised("AttributeError") ELSE PStr(LJust(c.str, size))
    ELSE PNone

format_cell(field_formatter, c, size, header) ==
    IF IsNone(field_formatter) THEN default_formatter(c, size, header)
    ELSE bug_list_formatter(c, size, header)

skip_nones(c) == ~IsNone(c)

tablify_rows(d, row_order) ==
    IF IsNone(row_order) THEN SortedKeys(DOMAIN d) ELSE row_order.seq

\* cols, or the exception d[rows[0]] raises.
tablify_cols(d, rows, col_order) ==
    IF IsNone(col_order)
    THEN IF rows = <<>> THEN Raised("IndexError")
         ELSE IF rows[1] \notin DOMAIN d THEN Raised("KeyError")
         ELSE [seq |-> SortedStrs(DOMAIN d[rows[1]])]
    ELSE col_order

\* col_widths before the rows are measured; the last entry is the row-key
\* column's.
initial_widths(cols) ==
    [i \in 1..(Len(cols) + 1) |-> IF i <= Len(cols) THEN Len(cols[i]) ELSE 0]

\* The measuring loop's body without the row-key line.
measure_row_no_key(col_widths, d, r, cols) ==
    IF cols # <<>> /\ (r \notin DOMAIN d
                       \/ \E i \in 1..Len(cols) : cols[i] \notin DOMAIN d[r])
    THEN Raised("KeyError")
    ELSE [seq |-> [i \in 1..(Len(cols) + 1) |->
                    IF i <= Len(cols)
                    THEN Max(col_widths[i], Len(StrOf(d[r][cols[i]])))
                    ELSE col_widths[i]]]

\* One iteration of the measuring loop, for row r.
measure_row(col_widths, d, r, cols) ==
    IF cols # <<>> /\ (r \notin DOMAIN d
                       \/ \E i \in 1..Len(cols) : cols[i] \notin DOMAIN d[r])
    THEN Raised("KeyError")
    ELSE [seq |-> [i \in 1..(Len(cols) + 1) |->
                    IF i <= Len(cols)
                    THEN Max(col_widths[i], Len(StrOf(d[r][cols[i]])))
                    ELSE Max(col_widths[i], Len(StrOf(r)))]]

RECURSIVE measure_rows(_, _, _, _)
measure_rest(w, d, rows, cols) ==
    IF IsExc(w) THEN w ELSE measure_rows(w.seq, d, Tail(rows), cols)
\* The measuring loop: col_widths after it, or KeyError.
measure_rows(col_widths, d, rows, cols) ==
    IF rows = <<>> THEN [seq |-> col_widths]
    ELSE measure_rest(measure_row(col_widths, d, rows[1], cols), d, rows, cols)

\* The header row's cells, before joining.
th_row(field_formatter, cols, col_widths) ==
    <<format_cell(field_formatter, PStr(<<>>), col_widths[Len(cols) + 1], <<>>)>>
    \o [i \in 1..Len(cols) |->
          format_cell(field_formatter, PStr(cols[i]), col_widths[i], cols[i])]

\* The cells of row r, before joining.
tr_row(field_formatter, d, r, cols, col_widths) ==
    <<format_cell(field_formatter, r, col_widths[Len(cols) + 1], <<>>)>>
    \o [i \in 1..Len(cols) |->
          format_cell(field_formatter, PStr(StrOf(d[r][cols[i]])), col_widths[i],
                      cols[i])]

RowRaises(cells) == \E i \in 1..Len(cells) : IsExc(cells[i])
FirstExc(cells) == cells[CHOOSE i \in 1..Len(cells) :
                           IsExc(cells[i]) /\ \A j \in 1..(i - 1) : ~IsExc(cells[j])]

join_kept(col_padding, kept) ==
    Join(Repeat(" ", col_padding), [i \in 1..Len(kept) |-> kept[i].str])
\* padding.join(filter(skip_nones, cells))
join_cells(col_padding, cells) == join_kept(col_padding, SelectSeq(cells, skip_nones))

\* th_row (when shown) and every row's tr, before joining.
table_cells(d, show_header, field_formatter, rows, cols, col_widths) ==
    (IF show_header THEN <<th_row(field_formatter, cols, col_widths)>> ELSE <<>>)
    \o [k \in 1..Len(rows) |-> tr_row(field_formatter, d, rows[k], cols, col_widths)]

\* The joined lines of the table, or the first exception a cell raises.
render_table(all, col_padding) ==
    IF \E k \in 1..Len(all) : RowRaises(all[k])
    THEN FirstExc(all[CHOOSE k \in 1..Len(all) :
                        RowRaises(all[k]) /\ \A j \in 1..(k - 1) : ~RowRaises(all[j])])
    ELSE [seq |-> [k \in 1..Len(all) |-> join_cells(col_padding, all[k])]]

\* '\n'.join(table), or the exception.
join_table(t) == IF IsExc(t) THEN t ELSE PStr(Join(<<"\n">>, t.seq))

\* tablify_dict from the header on, given the measured widths w.
tablify_render(d, show_header, field_formatter, rows, cols, w, col_padding) ==
    IF IsExc(w) THEN w
    ELSE join_table(render_table(
             table_cells(d, show_header, field_formatter, rows, cols, w.seq),
             col_padding))

\* tablify_dict from the measuring loop on, given rows and cols.
tablify_measure(d, show_header, field_formatter, rows, cols, col_padding) ==
    IF IsExc(cols) THEN cols
    ELSE tablify_render(d, show_header, field_formatter, rows, cols.seq,
                        measure_rows(initial_widths(cols.seq), d, rows, cols.seq),
                        col_padding)

tablify_ordered(d, show_header, field_formatter, rows, col_order, col_padding) ==
    tablify_measure(d, show_header, field_formatter, rows,
                    tablify_cols(d, rows, col_order), col_padding)

\* tablify_dict: the table as one str, or the exception raised.
tablify_dict(d, show_header, field_formatter, row_order, col_order, col_padding) ==
    tablify_ordered(d, show_header, field_formatter, tablify_rows(d, row_order),
                    col_order, col_padding)

(***************************************************************************)
(* Calendar dates: <<year, month, day>>.                                   *)
(***************************************************************************)
IsLeap(y) == (y % 4 = 0 /\ y % 100 # 0) \/ y % 400 = 0
DaysInMonth(y, m) == IF m = 2 THEN (IF IsLeap(y) THEN 29 ELSE 28)
                     ELSE IF m \in {4, 6, 9, 11} THEN 30 ELSE 31
\* date - timedelta(1)
PrevDay(d) == IF d[3] > 1 THEN <<d[1], d[2], d[3] - 1>>
              ELSE IF d[2] > 1 THEN <<d[1], d[2] - 1, DaysInMonth(d[1], d[2] - 1)>>
              ELSE <<d[1] - 1, 12, 31>>
RECURSIVE MinusDays(_, _)
\* date - timedelta(n)
MinusDays(d, n) == IF n = 0 THEN d ELSE MinusDays(PrevDay(d), n - 1)
\* date.__lt__
DateLess(a, b) == \/ a[1] < b[1]
                  \/ a[1] = b[1] /\ a[2] < b[2]
                  \/ a[1] = b[1] /\ a[2] = b[2] /\ a[3] < b[3]

RECURSIVE ParseNat(_)
ParseNat(s) == IF s = <<>> THEN 0
               ELSE 10 * ParseNat(SubSeq(s, 1, Len(s) - 1)) + DigitVal(s[Len(s)])
AllDigits(s) == \A i \in 1..Len(s) : \E k \in 1..10 : Digits[k] = s[i]

\* datetime.strptime(s, '%Y-%m-%dT%H:%M:%SZ').date(), or ValueError.
strptime_date(s) ==
    IF /\ Len(s) = 20
       /\ AllDigits(SubSeq(s, 1, 4)) /\ s[5] = "-"
       /\ AllDigits(SubSeq(s, 6, 7)) /\ s[8] = "-"
       /\ AllDigits(SubSeq(s, 9, 10)) /\ s[11] = "T"
       /\ AllDigits(SubSeq(s, 12, 13)) /\ s[14] = ":"
       /\ AllDigits(SubSeq(s, 15, 16)) /\ s[17] = ":"
       /\ AllDigits(SubSeq(s, 18, 19)) /\ s[20] = "Z"
    THEN LET y  == ParseNat(SubSeq(s, 1, 4))
             m  == ParseNat(SubSeq(s, 6, 7))
             dd == ParseNat(SubSeq(s, 9, 10))
         IN IF /\ y >= 1 /\ m \in 1..12 /\ dd >= 1 /\ dd <= DaysInMonth(y, m)
               /\ ParseNat(SubSeq(s, 12, 13)) <= 23
               /\ ParseNat(SubSeq(s, 15, 16)) <= 59
               /\ ParseNat(SubSeq(s, 18, 19)) <= 61
            THEN [date |-> <<y, m, dd>>]
            ELSE Raised("ValueError")
    ELSE Raised("ValueError")

(***************************************************************************)
(* get_trac_tickets: format_trac_tickets and summarize_trac_tickets.       *)
(***************************************************************************)
\* One ticket record from a row <<id, summary, type>> of the tab-delimited
\* response.
ticket_of(t) == (s_id :> PStr(t[1])) @@ (s_summary :> PStr(t[2]))
                @@ (s_type :> PStr(t[3]))
                @@ (s_url :> PStr(TRAC_BUILDBOT_TICKET_URL(t[1])))

\* format_trac_tickets on the rows that follow the header line.
format_trac_tickets(what, rows) ==
    <<what, [i \in 1..Len(rows) |-> ticket_of(rows[i])]>>

each_type == (s_Opened :> PInt(0)) @@ (s_Closed :> PInt(0))
CategoryRows == {s_Enhancements, s_Defects, s_Tasks, s_Regressions, s_Undecideds,
                 s_Other, s_Total}
\* ticket_summary as summarize_trac_tickets first builds it.
initial_ticket_summary == [r \in {PStr(c) : c \in CategoryRows} |-> each_type]
\* An item list keyed by insertion order: {}.
empty_dict == [k \in {} |-> PNone]

\* The type test without capitalize().
ticket_row_nocap(ticket_summary, t) ==
    IF PStr(t[s_type].str \o <<"s">>) \in DOMAIN ticket_summary
    THEN PStr(t[s_type].str \o <<"s">>) ELSE PStr(s_Other)

\* The row the type test selects for ticket t.
ticket_row(ticket_summary, t) ==
    LET Type == Capitalize(t[s_type].str) \o <<"s">>
    IN IF PStr(Type) \in DOMAIN ticket_summary THEN PStr(Type) ELSE PStr(s_Other)

Increment(ticket_summary, row, what) ==
    [ticket_summary EXCEPT ![row][what] = PInt(@.int + 1)]

\* d[len(d)] = t
append_item(d, t) == d @@ (PInt(Cardinality(DOMAIN d)) :> t)

\* The loop body with the Total increment inside the "if" branch only.
count_ticket_total_in_if(acc, what, t) ==
    [ticket_summary |->
        IF ticket_row(acc.ticket_summary, t) = PStr(s_Other)
        THEN Increment(acc.ticket_summary, PStr(s_Other), what)
        ELSE Increment(Increment(acc.ticket_summary,
                                 ticket_row(acc.ticket_summary, t), what),
                       PStr(s_Total), what),
     opened |-> IF what = s_Opened THEN append_item(acc.opened, t) ELSE acc.opened,
     closed |-> IF what = s_Closed THEN append_item(acc.closed, t) ELSE acc.closed]

\* The body of the ticket loop for one ticket t of branch what.
count_ticket(acc, what, t) ==
    [ticket_summary |->
        Increment(Increment(acc.ticket_summary, ticket_row(acc.ticket_summary, t), what),
                  PStr(s_Total), what),
     opened |-> IF what = s_Opened THEN append_item(acc.opened, t) ELSE acc.opened,
     closed |-> IF what = s_Opened THEN acc.closed
                ELSE IF what = s_Closed THEN append_item(acc.closed, t)
                ELSE acc.closed]

RECURSIVE count_tickets(_, _, _)
count_tickets(acc, what, tickets) ==
    IF tickets = <<>> THEN acc
    ELSE count_tickets(count_ticket(acc, what, tickets[1]), what, Tail(tickets))

RECURSIVE count_results(_, _)
\* The loop over results; an entry is <<success, value>>, and a failed
\* entry is skipped.
count_results(acc, results) ==
    IF results = <<>> THEN acc
    ELSE LET success == results[1][1]
             value   == results[1][2]
         IN IF ~success THEN count_results(acc, Tail(results))
            ELSE count_results(count_tickets(acc, value[1], value[2]), Tail(results))

initial_acc == [ticket_summary |-> initial_ticket_summary,
                opened |-> empty_dict, closed |-> empty_dict]

summary_row_order == <<PStr(s_Enhancements), PStr(s_Defects), PStr(s_Regressions),
                       PStr(s_Tasks), PStr(s_Undecideds), PStr(s_Other), PStr(s_Total)>>
ticket_col_order == <<s_id, s_type, s_summary, s_url>>

\* trac_summary joined: the three overviews, or the exception a table
\* raised.
join_trac_summary(ticket_table, opened_table, closed_table) ==
    IF IsExc(ticket_table) THEN ticket_table
    ELSE IF IsExc(opened_table) THEN opened_table
    ELSE IF IsExc(closed_table) THEN closed_table
    ELSE PStr(Join(<<"\n", "\n">>,
           << Join(<<"\n">>, <<s_Ticket_Summary, Repeat("-", 14), ticket_table.str>>),
              Join(<<"\n">>, <<s_New_Reopened_Tickets, Repeat("-", 20),
                               opened_table.str>>),
              Join(<<"\n">>, <<s_Closed_Tickets, Repeat("-", 14),
                               closed_table.str>>) >>))

\* The text summarize_trac_tickets builds from the counted tickets
\* (col_padding = 2).
render_trac_summary(acc) ==
    join_trac_summary(
        tablify_dict(acc.ticket_summary, TRUE, PNone, [seq |-> summary_row_order],
                     [seq |-> <<s_Opened, s_Closed>>], 2),
        tablify_dict(acc.opened, FALSE, [fn |-> "bug_list_formatter"], PNone,
                     [seq |-> ticket_col_order], 2),
        tablify_dict(acc.closed, FALSE, [fn |-> "bug_list_formatter"], PNone,
                     [seq |-> ticket_col_order], 2))

\* The pair (part, text) a summarizer returns, or the exception.
part_of(part, text) == IF IsExc(text) THEN text ELSE [part |-> part, msg |-> text.str]

\* summarize_trac_tickets(results): ('trac', text), or the exception.
summarize_trac_tickets(results) ==
    part_of(s_trac, render_trac_summary(count_results(initial_acc, results)))

(***************************************************************************)
(* get_github_prs: summarize_github_prs.  A pull-request record is a       *)
(* mapping with the fields state, created_at, closed_at (a str or None),   *)
(* number, title, html_url.                                                *)
(***************************************************************************)
s_created_at == <<"c", "r", "e", "a", "t", "e", "d", "_", "a", "t">>
s_closed_at == <<"c", "l", "o", "s", "e", "d", "_", "a", "t">>
s_state == <<"s", "t", "a", "t", "e">>

\* categories, without the accumulating dict: <<title, state, when>>.
categories == << <<s_Opened, s_open, s_created_at>>,
                 <<s_Completed, s_closed, s_closed_at>> >>

\* The range test with ">=" for ">": the last day of the window is dropped.
keep_in_range_exclusive(pr_dict, pr, happened, start_day, end_day) ==
    IF IsExc(happened) THEN happened
    ELSE IF DateLess(happened.date, start_day) \/ ~DateLess(happened.date, end_day)
    THEN [dict |-> pr_dict]
    ELSE [dict |-> append_item(pr_dict, pr)]

\* pr_dict after the range test of the date happened, or ValueError.
keep_in_range(pr_dict, pr, happened, start_day, end_day) ==
    IF IsExc(happened) THEN happened
    ELSE IF DateLess(happened.date, start_day) \/ DateLess(end_day, happened.date)
    THEN [dict |-> pr_dict]
    ELSE [dict |-> append_item(pr_dict, pr)]

\* The inner loop's body for pull request pr and one group: pr_dict after
\* it, or ValueError.
classify_group(pr_dict, pr, group, start_day, end_day) ==
    IF pr[s_state] = PStr(group[2]) /\ ~IsNone(pr[group[3]])
    THEN keep_in_range(pr_dict, pr, strptime_date(pr[group[3]].str), start_day,
                       end_day)
    ELSE [dict |-> pr_dict]

both_groups(o, c) == IF IsExc(o) THEN o ELSE IF IsExc(c) THEN c
                     ELSE [dicts |-> <<o.dict, c.dict>>]

\* The outer loop's body for pull request pr: both dicts after it, or
\* ValueError.
classify_pr(dicts, pr, start_day, end_day) ==
    both_groups(classify_group(dicts[1], pr, categories[1], start_day, end_day),
                classify_group(dicts[2], pr, categories[2], start_day, end_day))

RECURSIVE classify_prs(_, _, _, _)
classify_rest(r, body, start_day, end_day) ==
    IF IsExc(r) THEN r ELSE classify_prs(r.dicts, Tail(body), start_day, end_day)
\* The loop over the pull requests: both dicts after it, or ValueError.
classify_prs(dicts, body, start_day, end_day) ==
    IF body = <<>> THEN [dicts |-> dicts]
    ELSE classify_rest(classify_pr(dicts, body[1], start_day, end_day), body,
                       start_day, end_day)

pr_col_order == <<s_number, s_title, s_html_url>>

titled(title, table) ==
    IF IsExc(table) THEN table
    ELSE PStr(Join(<<"\n">>, <<title, Repeat("-", Len(title)), table.str>>))

\* One overview: the title, its underline and the table of pr_dict.
pr_overview(what, pr_dict) ==
    titled(what \o s_Pull_Requests,
           tablify_dict(pr_dict, FALSE, [fn |-> "bug_list_formatter"],
                        [seq |-> SortedKeysDesc(DOMAIN pr_dict)],
                        [seq |-> pr_col_order], 2))

join_overviews(o, c) == IF IsExc(o) THEN o ELSE IF IsExc(c) THEN c
                        ELSE PStr(Join(<<"\n", "\n">>, <<o.str, c.str>>))

\* The second loop over categories, and the join of the overviews.
render_github_summary(dicts) ==
    join_overviews(pr_overview(categories[1][1], dicts[1]),
                   pr_overview(categories[2][1], dicts[2]))

github_part(r) == IF IsExc(r) THEN r
                  ELSE part_of(s_github, render_github_summary(r.dicts))

\* summarize_github_prs on the decoded body: ('github', text), or the
\* exception.
summarize_github_prs(body, start_day, end_day) ==
    github_part(classify_prs(<<empty_dict, empty_dict>>, body, start_day, end_day))

(***************************************************************************)
(* The inputs of a run: what the three HTTP requests return, and whether   *)
(* standard output accepts the report.                                     *)
(***************************************************************************)
\* All sequences over S of length at most n.
SeqsUpTo(S, n) == UNION {[1..k -> S] : k \in 0..n}

t_fix == <<"f", "i", "x">>
t_defect == <<"d", "e", "f", "e", "c", "t">>
t_task == <<"t", "a", "s", "k">>
t_bogus == <<"b", "o", "g", "u", "s">>
\* Rows <<id, summary, type>> of a Trac response.
MainTicketRows == { <<<<"7">>, t_fix, t_defect>>, <<<<"1", "2">>, t_fix, t_bogus>> }

ts_in == <<"2", "0", "2", "4", "-", "0", "1", "-", "1", "0", "T", "0", "0", ":", "0", "0", ":", "0", "0", "Z">>
ts_before == <<"2", "0", "2", "4", "-", "0", "1", "-", "0", "1", "T", "0", "0", ":", "0", "0", ":", "0", "0", "Z">>
ts_last == <<"2", "0", "2", "4", "-", "0", "1", "-", "1", "4", "T", "2", "3", ":", "5", "9", ":", "5", "9", "Z">>
ts_after == <<"2", "0", "2", "4", "-", "0", "1", "-", "1", "5", "T", "0", "0", ":", "0", "0", ":", "0", "0", "Z">>
ts_lastyear == <<"2", "0", "2", "3", "-", "1", "2", "-", "3", "1", "T", "1", "2", ":", "0", "0", ":", "0", "0", "Z">>

\* A pull-request record of the GitHub response.
PullRequest(number, state, created_at, closed_at) ==
    (s_number :> PInt(number)) @@ (s_title :> PStr(t_fix))
    @@ (s_html_url :> PStr(<<"h", "t", "t", "p", "s", ":", "/", "/", "g", "h", "/", "p">>
                            \o IntToStr(number)))
    @@ (s_state :> PStr(state)) @@ (s_created_at :> created_at)
    @@ (s_closed_at :> closed_at)

MainPulls == { PullRequest(101, s_open, PStr(ts_in), PNone),
               PullRequest(99, s_closed, PStr(ts_before), PStr(ts_last)),
               PullRequest(7, s_open, PStr(ts_before), PNone) }

\* date.today() of a run.
Todays == { <<2024, 1, 15>>, <<2024, 1, 8>> }

(***************************************************************************)
(* DeferredList(..., fireOnOneErrback=True, consumeErrors=True).           *)
(***************************************************************************)
\* A slot of resultList holds nothing (here: no success, None) until its
\* member fires.
new_list(n) == [resultList |->
                   [i \in 1..n |-> [done |-> FALSE, success |-> FALSE, value |-> PNone]],
                finishedCount |-> 0, called |-> FALSE]

\* The list without fireOnOneErrback: a failure is only recorded.
list_fires_collect(called, succeeded, finishedCount, n) ==
    IF called THEN "none"
    ELSE IF finishedCount = n THEN "callback"
    ELSE "none"

\* Whether the list fires when a member fires with succeeded, finishedCount
\* being already incremented.
list_fires(called, succeeded, finishedCount, n) ==
    IF called THEN "none"
    ELSE IF ~succeeded THEN "errback"
    ELSE IF finishedCount = n THEN "callback"
    ELSE "none"

fired_list(dl, rl, fired) ==
    [dl |-> [resultList |-> rl, finishedCount |-> dl.finishedCount + 1,
             called |-> dl.called \/ fired # "none"],
     fired |-> fired]

\* What the list does when its member index fires with (succeeded, result):
\* the list after it, and whether the list itself fires now.
cb_deferred(dl, index, succeeded, result) ==
    fired_list(dl,
               [dl.resultList EXCEPT
                  ![index] = [done |-> TRUE, success |-> succeeded, value |-> result]],
               list_fires(dl.called, succeeded, dl.finishedCount + 1,
                          Len(dl.resultList)))

\* The list of (success, value) pairs a fired list hands to its callback.
results_of(dl) ==
    [i \in 1..Len(dl.resultList) |->
        <<dl.resultList[i].success, dl.resultList[i].value>>]

(***************************************************************************)
(* summary and the callback chain of main().                               *)
(***************************************************************************)
RECURSIVE message_parts(_)
add_part(rest, entry) == IF ~entry[1] THEN rest
                         ELSE (entry[2].part :> entry[2].msg) @@ rest
\* message_parts after the loop of summary: part -> msg of the successes.
message_parts(results) ==
    IF results = <<>> THEN empty_dict
    ELSE add_part(message_parts(SubSeq(results, 1, Len(results) - 1)),
                  results[Len(results)])

\* print message % message_parts: the text written, or the exception.
print_message(parts, canPrint) ==
    IF s_trac \notin DOMAIN parts \/ s_github \notin DOMAIN parts
    THEN Raised("KeyError")
    ELSE IF ~canPrint THEN Raised("IOError")
    ELSE PStr(s_msg_trac_head \o parts[s_trac] \o s_msg_github_head
              \o parts[s_github] \o <<"\n">>)

summary(results, canPrint) == print_message(message_parts(results), canPrint)

(***************************************************************************)
(* State.                                                                  *)
(***************************************************************************)
VARIABLES
    \* main(): the inputs of the run.
    body,           \* what each request returns once decoded
    stdoutOK,       \* whether print succeeds
    start_day, end_day,
    \* main(): the callback chain.
    fetch,          \* each request: "pending", "ok" or "failed"
    trac_dl,        \* the DeferredList of get_trac_tickets
    main_dl,        \* the DeferredList of main
    stdout,         \* the texts printed
    errlog,         \* the failures log.err was given
    events,         \* the chain's calls, in order
    reactor,        \* "running" or "stopped"
    order,          \* the requests in the order they completed
    \* summarize_trac_tickets: the counting loop.
    results, ticket_summary, opened, closed, ri, ti,
    \* summarize_github_prs: the classification loop.
    pulls, opened_prs, closed_prs, pi, github_summary,
    \* tablify_dict.
    tab_args, rows, cols, col_widths, rk, cells, table, tab_pc

windowVars == <<start_day, end_day>>
mainVars == <<body, stdoutOK, fetch, trac_dl, main_dl, stdout,
              errlog, events, reactor, order>>
countVars == <<results, ticket_summary, opened, closed, ri, ti>>
pullVars == <<pulls, opened_prs, closed_prs, pi, github_summary>>
tabVars == <<tab_args, rows, cols, col_widths, rk, cells, table, tab_pc>>
vars == <<windowVars, mainVars, countVars, pullVars, tabVars>>

Fetches == {s_Opened, s_Closed, s_Github}

(***************************************************************************)
(* main(): the three requests complete in any order; each completion runs  *)
(* the callbacks chained on it, synchronously.                             *)
(***************************************************************************)
\* The window main() computes from date.today().
window_of(today) == [end_day |-> PrevDay(today),
                     start_day |-> MinusDays(PrevDay(today), 6)]

MainStart ==
    /\ \E o, c \in SeqsUpTo(MainTicketRows, MaxTickets) :
         \E g \in SeqsUpTo(MainPulls, MaxPRs) :
            body = (s_Opened :> o) @@ (s_Closed :> c) @@ (s_Github :> g)
    /\ \E today \in Todays : /\ end_day = window_of(today).end_day
                             /\ start_day = window_of(today).start_day
    /\ fetch = [f \in Fetches |-> "pending"]
    /\ trac_dl = new_list(2)
    /\ main_dl = new_list(2)
    /\ stdout = <<>>
    /\ errlog = <<>>
    /\ events = <<>>
    /\ reactor = "running"
    /\ order = <<>>

MainIdle ==
    /\ body = <<>> /\ stdoutOK = TRUE
    /\ fetch = <<>> /\ trac_dl = <<>> /\ main_dl = <<>> /\ stdout = <<>>
    /\ errlog = <<>> /\ events = <<>> /\ reactor = "idle" /\ order = <<>>
WindowIdle == start_day = <<>> /\ end_day = <<>>
CountIdle ==
    /\ results = <<>> /\ ticket_summary = <<>> /\ opened = <<>> /\ closed = <<>>
    /\ ri = 0 /\ ti = 0
PullIdle ==
    /\ pulls = <<>> /\ opened_prs = <<>> /\ closed_prs = <<>> /\ pi = 0
    /\ github_summary = PNone
TabIdle ==
    /\ tab_args = <<>> /\ rows = <<>> /\ cols = <<>> /\ col_widths = <<>> /\ rk = 0
    /\ cells = <<>> /\ table = PNone /\ tab_pc = "idle"

\* The chain main() puts on its list when summary returned or raised out:
\* addErrback(log.err), addCallback(reactor.stop).
after_summary(out) ==
    IF IsExc(out)
    THEN [events |-> <<"summary", "log.err", "reactor.stop">>,
          errlog |-> <<out.exc>>, stdout |-> <<>>]
    ELSE [events |-> <<"summary", "reactor.stop">>,
          errlog |-> <<>>, stdout |-> <<out.str>>]

\* The chain with reactor.stop added before log.err: a failure skips it.
main_chain_stop_first(fired, dl, canPrint) ==
    IF fired = "callback"
    THEN after_summary(summary(results_of(dl), canPrint))
    ELSE [events |-> <<"log.err">>, errlog |-> <<"FirstError">>, stdout |-> <<>>]

\* The chain main() puts on its list, run when the list fires:
\* addCallback(summary), addErrback(log.err), addCallback(reactor.stop).
\* The events and the log entries it adds, and the text it prints.
main_chain(fired, dl, canPrint) ==
    IF fired = "callback"
    THEN after_summary(summary(results_of(dl), canPrint))
    ELSE [events |-> <<"log.err", "reactor.stop">>,
          errlog |-> <<"FirstError">>, stdout |-> <<>>]

\* Member index of main's list fires with (succeeded, result).
MainDeliver(index, succeeded, result) ==
    \E m \in {cb_deferred(main_dl, index, succeeded, result)} :
       /\ main_dl' = m.dl
       /\ IF m.fired = "none"
          THEN UNCHANGED <<stdout, errlog, events, reactor>>
          ELSE \E c \in {main_chain(m.fired, m.dl, stdoutOK)} :
                  /\ events' = events \o c.events
                  /\ errlog' = errlog \o c.errlog
                  /\ stdout' = stdout \o c.stdout
                  /\ reactor' = IF c.events[Len(c.events)] = "reactor.stop"
                                THEN "stopped" ELSE reactor

\* The chain with addBoth for addCallback: it summarizes on an errback too.
trac_chain_both(fired, dl) == summarize_trac_tickets(results_of(dl))

\* What the list of get_trac_tickets passes on when it fires:
\* addCallback(summarize_trac_tickets) runs on a callback only.
trac_chain(fired, dl) ==
    IF fired = "callback" THEN summarize_trac_tickets(results_of(dl))
    ELSE Raised("FirstError")

\* One of the two Trac requests completes: its body is read and formatted,
\* or it fails.
TracFetchDone(what, index) ==
    /\ reactor = "running"
    /\ fetch[what] = "pending"
    /\ \E ok \in BOOLEAN :
         \E t \in {cb_deferred(trac_dl, index, ok,
                               IF ok THEN format_trac_tickets(what, body[what])
                               ELSE Raised("Failure"))} :
            /\ fetch' = [fetch EXCEPT ![what] = IF ok THEN "ok" ELSE "failed"]
            /\ trac_dl' = t.dl
            /\ order' = Append(order, what)
            /\ IF t.fired = "none"
               THEN UNCHANGED <<main_dl, stdout, errlog, events, reactor>>
               ELSE \E v \in {trac_chain(t.fired, t.dl)} :
                       MainDeliver(1, ~IsExc(v), v)
    /\ UNCHANGED <<body, stdoutOK, windowVars, countVars, pullVars, tabVars>>

OpenedFetchDone == TracFetchDone(s_Opened, 1)
ClosedFetchDone == TracFetchDone(s_Closed, 2)

\* The GitHub request completes: its body is read and summarized, or it
\* fails.
GithubFetchDone ==
    /\ reactor = "running"
    /\ fetch[s_Github] = "pending"
    /\ \E ok \in BOOLEAN :
         \E v \in {IF ok THEN summarize_github_prs(body[s_Github], start_day, end_day)
                   ELSE Raised("Failure")} :
            /\ fetch' = [fetch EXCEPT ![s_Github] = IF ok THEN "ok" ELSE "failed"]
            /\ order' = Append(order, s_Github)
            /\ MainDeliver(2, ~IsExc(v), v)
    /\ UNCHANGED <<body, stdoutOK, windowVars, trac_dl, countVars, pullVars, tabVars>>

Init == MainStart /\ stdoutOK = TRUE /\ CountIdle /\ PullIdle /\ TabIdle
InitIO == MainStart /\ stdoutOK \in BOOLEAN /\ CountIdle /\ PullIdle /\ TabIdle
Next == OpenedFetchDone \/ ClosedFetchDone \/ GithubFetchDone
Spec == Init /\ [][Next]_vars
\* Every request eventually completes, with a response or a failure.
FairSpec == /\ InitIO /\ [][Next]_vars
            /\ WF_vars(OpenedFetchDone) /\ WF_vars(ClosedFetchDone)
            /\ WF_vars(GithubFetchDone)

(***************************************************************************)
(* summarize_trac_tickets, one ticket at a time: the loop that counts the  *)
(* tickets of the two branches.                                            *)
(***************************************************************************)
t_enhancement == <<"e", "n", "h", "a", "n", "c", "e", "m", "e", "n", "t">>
t_regression == <<"r", "e", "g", "r", "e", "s", "s", "i", "o", "n">>
t_undecided == <<"u", "n", "d", "e", "c", "i", "d", "e", "d">>
t_other == <<"o", "t", "h", "e", "r">>
t_total == <<"t", "o", "t", "a", "l">>
t_dEFECT == <<"d", "E", "F", "E", "C", "T">>
\* The types of the tickets of the two responses.
OpenedRows == { <<<<"7">>, t_fix, ty>> :
                   ty \in {t_defect, t_task, t_enhancement, t_total, t_dEFECT, <<>>} }
ClosedRows == { <<<<"1", "2">>, t_fix, ty>> :
                   ty \in {t_regression, t_undecided, t_other} }

CountStart ==
    /\ \E o \in SeqsUpTo(OpenedRows, MaxCount) :
         \E c \in SeqsUpTo(ClosedRows, MaxClosed) :
            results = << <<TRUE, format_trac_tickets(s_Opened, o)>>,
                         <<TRUE, format_trac_tickets(s_Closed, c)>> >>
    /\ ticket_summary = initial_acc.ticket_summary
    /\ opened = initial_acc.opened
    /\ closed = initial_acc.closed
    /\ ri = 1
    /\ ti = 1

\* One iteration of "for t in tickets".
CountTicket ==
    /\ ri \in 1..Len(results)
    /\ results[ri][1]
    /\ ti \in 1..Len(results[ri][2][2])
    /\ \E acc \in {count_ticket([ticket_summary |-> ticket_summary,
                                 opened |-> opened, closed |-> closed],
                                results[ri][2][1], results[ri][2][2][ti])} :
          /\ ticket_summary' = acc.ticket_summary
          /\ opened' = acc.opened
          /\ closed' = acc.closed
    /\ ti' = ti + 1
    /\ UNCHANGED <<results, ri, windowVars, mainVars, pullVars, tabVars>>

\* "for success, value in results" moves on: the entry failed, or its
\* tickets are all counted.
NextResult ==
    /\ ri \in 1..Len(results)
    /\ ~results[ri][1] \/ ti > Len(results[ri][2][2])
    /\ ri' = ri + 1
    /\ ti' = 1
    /\ UNCHANGED <<results, ticket_summary, opened, closed, windowVars, mainVars,
                   pullVars, tabVars>>

InitCount == CountStart /\ WindowIdle /\ MainIdle /\ PullIdle /\ TabIdle
NextCount == CountTicket \/ NextResult
SpecCount == InitCount /\ [][NextCount]_vars

(***************************************************************************)
(* summarize_github_prs, one pull request at a time.                       *)
(***************************************************************************)
PullRecords == { PullRequest(101, st, cr, cl) :
                   st \in {s_open, s_closed},
                   cr \in {PNone, PStr(ts_in), PStr(ts_before), PStr(ts_after)},
                   cl \in {PNone, PStr(ts_last), PStr(ts_lastyear)} }

PullStart ==
    /\ pulls \in SeqsUpTo(PullRecords, MaxPulls)
    /\ \E today \in Todays : /\ end_day = window_of(today).end_day
                             /\ start_day = window_of(today).start_day
    /\ opened_prs = empty_dict
    /\ closed_prs = empty_dict
    /\ pi = 1
    /\ github_summary = PNone

\* One iteration of "for pr in body": pr is tested against both groups.
ClassifyPr ==
    /\ IsNone(github_summary)
    /\ pi \in 1..Len(pulls)
    /\ \E r \in {classify_pr(<<opened_prs, closed_prs>>, pulls[pi], start_day,
                             end_day)} :
          IF IsExc(r)
          THEN /\ github_summary' = r
               /\ UNCHANGED <<opened_prs, closed_prs>>
          ELSE /\ opened_prs' = r.dicts[1]
               /\ closed_prs' = r.dicts[2]
               /\ UNCHANGED github_summary
    /\ pi' = pi + 1
    /\ UNCHANGED <<pulls, windowVars, mainVars, countVars, tabVars>>

\* After the loop: the two overviews are rendered and joined.
RenderPrs ==
    /\ IsNone(github_summary)
    /\ pi = Len(pulls) + 1
    /\ github_summary' = part_of(s_github,
                                 render_github_summary(<<opened_prs, closed_prs>>))
    /\ UNCHANGED <<pulls, opened_prs, closed_prs, pi, windowVars, mainVars, countVars,
                   tabVars>>

InitPulls == PullStart /\ MainIdle /\ CountIdle /\ TabIdle
NextPulls == ClassifyPr \/ RenderPrs
SpecPulls == InitPulls /\ [][NextPulls]_vars

(***************************************************************************)
(* tablify_dict, step by step.                                             *)
(***************************************************************************)
\* Row keys: category names (strs) or insertion indexes (ints).
StrKeys == {PStr(<<"a">>), PStr(<<"1", "0", "0", "0">>), PStr(s_Total)}
IntKeys == {PInt(0), PInt(1), PInt(10)}
\* Every row mapping has the same columns.
TableRows == [{s_Opened, s_id} -> {PInt(12), PStr(s_Enhancements)}]
TablesOver(keys) ==
    UNION {[ks -> TableRows] : ks \in {x \in SUBSET keys : Cardinality(x) <= MaxRows}}

TabStart ==
    /\ \E d \in TablesOver(StrKeys) \cup TablesOver(IntKeys) :
         \E ro \in {PNone, [seq |-> SortedKeysDesc(DOMAIN d)]} :
            \E co \in {PNone, [seq |-> <<s_Opened, s_id>>], [seq |-> <<s_id>>]},
                  sh \in BOOLEAN, ff \in {PNone, [fn |-> "bug_list_formatter"]} :
               tab_args = [d |-> d, show_header |-> sh, field_formatter |-> ff,
                           row_order |-> ro, col_order |-> co, col_padding |-> 1]
    /\ rows = <<>>
    /\ cols = <<>>
    /\ col_widths = <<>>
    /\ rk = 0
    /\ cells = <<>>
    /\ table = PNone
    /\ tab_pc = "start"

\* Up to the loops: rows, cols and the header widths; d[rows[0]] may raise.
TabBegin ==
    /\ tab_pc = "start"
    /\ \E rs \in {tablify_rows(tab_args.d, tab_args.row_order)} :
         \E cs \in {tablify_cols(tab_args.d, rs, tab_args.col_order)} :
            IF IsExc(cs)
            THEN /\ table' = cs
                 /\ tab_pc' = "raised"
                 /\ rows' = rs
                 /\ UNCHANGED <<cols, col_widths, rk>>
            ELSE /\ rows' = rs
                 /\ cols' = cs.seq
                 /\ col_widths' = initial_widths(cs.seq)
                 /\ rk' = 1
                 /\ tab_pc' = "measure"
                 /\ UNCHANGED table
    /\ UNCHANGED <<tab_args, cells, windowVars, mainVars, countVars, pullVars>>

\* One iteration of the first "for r in rows".
TabMeasureRow ==
    /\ tab_pc = "measure"
    /\ rk \in 1..Len(rows)
    /\ \E w \in {measure_row(col_widths, tab_args.d, rows[rk], cols)} :
          IF IsExc(w)
          THEN /\ table' = w
               /\ tab_pc' = "raised"
               /\ UNCHANGED <<col_widths, rk>>
          ELSE /\ col_widths' = w.seq
               /\ rk' = rk + 1
               /\ UNCHANGED <<table, tab_pc>>
    /\ UNCHANGED <<tab_args, rows, cols, cells, windowVars, mainVars, countVars,
                   pullVars>>

\* The header, the second "for r in rows" and the final join.
TabRender ==
    /\ tab_pc = "measure"
    /\ rk = Len(rows) + 1
    /\ \E all \in {table_cells(tab_args.d, tab_args.show_header,
                               tab_args.field_formatter, rows, cols, col_widths)} :
         \E t \in {join_table(render_table(all, tab_args.col_padding))} :
            /\ cells' = all
            /\ table' = t
            /\ tab_pc' = IF IsExc(t) THEN "raised" ELSE "done"
    /\ UNCHANGED <<tab_args, rows, cols, col_widths, rk, windowVars, mainVars,
                   countVars, pullVars>>

InitTable == TabStart /\ WindowIdle /\ MainIdle /\ CountIdle /\ PullIdle
NextTable == TabBegin \/ TabMeasureRow \/ TabRender
SpecTable == InitTable /\ [][NextTable]_vars

(***************************************************************************)
(* Properties of main(): the callback chain.                               *)
(***************************************************************************)
Range(s) == {s[i] : i \in DOMAIN s}
FetchFailed == \E f \in Fetches : fetch[f] = "failed"
AllFetched == \A f \in Fetches : fetch[f] = "ok"
\* Pipeline i of main's list (1: Trac, 2: GitHub) produced its block / failed.
BlockProduced(i) == main_dl.resultList[i].done /\ main_dl.resultList[i].success
PipelineFailed(i) == main_dl.resultList[i].done /\ ~main_dl.resultList[i].success

\* C1: when one of the two pipelines (Trac, GitHub) has failed and the other
\* has produced its block, the report is still printed, from the block that
\* was produced.
C1_PartialReport ==
    \A i \in 1..2 : (PipelineFailed(i) /\ BlockProduced(3 - i)) => stdout # <<>>

\* C2: as soon as any request fails the run is over: that failure is the last
\* completion of the run, summary is never called, nothing is printed, the
\* failure is logged and the reactor is stopped.
C2_FailFast ==
    FetchFailed =>
        /\ reactor = "stopped"
        /\ stdout = <<>>
        /\ "summary" \notin Range(events)
        /\ events = <<"log.err", "reactor.stop">>
        /\ \A f \in Fetches : fetch[f] = "failed" => f = order[Len(order)]

\* A request succeeded, then another failed while the third was pending.
C2_Witness ==
    /\ fetch[s_Github] = "ok" /\ fetch[s_Opened] = "failed"
    /\ fetch[s_Closed] = "pending"
    /\ order = <<s_Github, s_Opened>>
    /\ reactor = "stopped" /\ stdout = <<>>

SummaryRaised == "summary" \in Range(events) /\ stdout = <<>>

\* C3: every run eventually stops the reactor, reactor.stop being the last
\* call of the chain; when a request failed or summary raised, the failure
\* is logged by the call just before reactor.stop.
C3_ReactorStops ==
    /\ <>(reactor = "stopped")
    /\ [](reactor = "stopped" =>
            /\ events[Len(events)] = "reactor.stop"
            /\ (FetchFailed \/ SummaryRaised) =>
                  /\ Len(events) >= 2
                  /\ events[Len(events) - 1] = "log.err"
                  /\ Len(errlog) = 1)

\* Every request succeeded and summary raised on print: logged, then stopped.
C3_Witness ==
    /\ AllFetched /\ ~stdoutOK
    /\ events = <<"summary", "log.err", "reactor.stop">>
    /\ errlog = <<"IOError">>
    /\ reactor = "stopped"

\* C4: the Trac pipeline fails only if both its requests failed: with one
\* request failed and the other succeeded, the Trac block is still produced.
C4_OneRequestTolerated ==
    /\ PipelineFailed(1) => fetch[s_Opened] = "failed" /\ fetch[s_Closed] = "failed"
    /\ (\E w \in {s_Opened, s_Closed} :
           fetch[w] = "failed" /\ \A v \in {s_Opened, s_Closed} \ {w} : fetch[v] = "ok")
       => BlockProduced(1)

\* The report of a run, from what the three requests return alone.
ExpectedReport ==
    summary(<< <<TRUE, summarize_trac_tickets(
                          << <<TRUE, format_trac_tickets(s_Opened, body[s_Opened])>>,
                             <<TRUE, format_trac_tickets(s_Closed, body[s_Closed])>> >>)>>,
               <<TRUE, summarize_github_prs(body[s_Github], start_day, end_day)>> >>,
            TRUE)

\* C6: with a working standard output, the report is printed exactly when
\* all three requests have succeeded, in whatever order they completed: once,
\* after both requests of the Trac list and both pipelines have completed, and
\* its text is the same for every completion order.
C6_OrderInsensitive ==
    /\ Len(stdout) <= 1
    /\ AllFetched <=> stdout # <<>>
    /\ stdout # <<>> =>
          /\ trac_dl.finishedCount = 2 /\ BlockProduced(1) /\ BlockProduced(2)
          /\ events = <<"summary", "reactor.stop">>
          /\ reactor = "stopped"
          /\ stdout[1] = ExpectedReport.str

\* The report was printed after the requests completed in reverse order.
C6_Witness ==
    /\ stdout # <<>>
    /\ order = <<s_Github, s_Closed, s_Opened>>
    /\ body[s_Opened] # <<>> /\ body[s_Closed] # <<>> /\ body[s_Github] # <<>>

(***************************************************************************)
(* Properties of the counting loop of summarize_trac_tickets.              *)
(***************************************************************************)
Count(row, col) == ticket_summary[PStr(row)][col].int
RECURSIVE SumOf(_, _)
\* The sum of column col over the rows rs.
SumOf(rs, col) ==
    IF rs = {} THEN 0
    ELSE SumOf(rs \ {CHOOSE r \in rs : TRUE}, col)
         + Count(CHOOSE r \in rs : TRUE, col)

\* C5: after each ticket, in both columns, the Total row's count is the sum
\* of the counts of the six other rows.
C5_TotalIsSum ==
    \A col \in {s_Opened, s_Closed} :
       Count(s_Total, col) = SumOf(CategoryRows \ {s_Total}, col)

\* Tickets of both responses were counted, one of them of an unknown type.
C5_Witness ==
    /\ Count(s_Other, s_Opened) >= 1
    /\ Count(s_Total, s_Opened) >= 2
    /\ Count(s_Total, s_Closed) >= 1

\* The row a ticket type is to be counted in.
RowOfType(ty) ==
    CASE ty = t_enhancement -> s_Enhancements
      [] ty = t_defect -> s_Defects
      [] ty = t_dEFECT -> s_Defects
      [] ty = t_task -> s_Tasks
      [] ty = t_regression -> s_Regressions
      [] ty = t_undecided -> s_Undecideds
      [] OTHER -> s_Other

\* The loop counts the ticket at ti of the response at ri.
CountsOneTicket ==
    /\ ri' = ri /\ ti' = ti + 1
    /\ \A r \in CategoryRows, col \in {s_Opened, s_Closed} :
          ticket_summary'[PStr(r)][col].int =
             Count(r, col)
             + (IF /\ col = results[ri][2][1]
                   /\ r \in {s_Total, RowOfType(results[ri][2][2][ti][s_type].str)}
                THEN 1 ELSE 0)

TypesOf(tickets) == [i \in 1..Len(tickets) |-> tickets[i][s_type].str]
\* Two defects and a task were opened, nothing was closed, all are counted.
ScenarioCounted ==
    /\ ri = 3
    /\ TypesOf(results[1][2][2]) = <<t_defect, t_defect, t_task>>
    /\ results[2][2][2] = <<>>
ScenarioCounts ==
    \A r \in CategoryRows :
       /\ Count(r, s_Closed) = 0
       /\ Count(r, s_Opened) = (CASE r = s_Defects -> 2 [] r = s_Tasks -> 1
                                  [] r = s_Total -> 3 [] OTHER -> 0)

\* C10: each ticket adds one, in the column of its response, to exactly one
\* row other than Total (the row named by its capitalized type plus "s" when
\* that is one of the five named categories, else Other) and to Total, and to
\* nothing else; opened tickets of types defect, defect, task then give
\* Defects 2, Tasks 1, Total 3 in column Opened.
C10_OneRowPerTicket ==
    /\ [][ti' # ti \/ ri' # ri => (CountsOneTicket \/ (ri' = ri + 1 /\ ti' = 1
                                    /\ ticket_summary' = ticket_summary))]_vars
    /\ [](ScenarioCounted => ScenarioCounts)

C10_Witness == ScenarioCounted /\ ScenarioCounts

(***************************************************************************)
(* Properties of the classification loop of summarize_github_prs.          *)
(***************************************************************************)
\* The calendar day of a timestamp of the responses, as the number yyyymmdd.
DayOfStamp(ts) ==
    CASE ts = ts_in -> 20240110
      [] ts = ts_before -> 20240101
      [] ts = ts_last -> 20240114
      [] ts = ts_after -> 20240115
      [] ts = ts_lastyear -> 20231231
DayNumber(d) == d[1] * 10000 + d[2] * 100 + d[3]
InWindow(stamp) ==
    /\ ~IsNone(stamp)
    /\ DayNumber(start_day) <= DayOfStamp(stamp.str)
    /\ DayOfStamp(stamp.str) <= DayNumber(end_day)
IsOpenedPr(pr) == pr[s_state] = PStr(s_open) /\ InWindow(pr[s_created_at])
IsCompletedPr(pr) == pr[s_state] = PStr(s_closed) /\ InWindow(pr[s_closed_at])
\* The items of an insertion-keyed dict, in insertion order.
ItemsOf(d) == [i \in 1..Cardinality(DOMAIN d) |-> d[PInt(i - 1)]]

\* C9: of the pull requests classified so far, Opened holds exactly the open
\* ones created within [start_day, end_day] and Completed exactly the closed
\* ones closed within it, both bounds included, in the order of the response;
\* a pull request is in at most one of the two lists.
C9_Classification ==
    /\ ItemsOf(opened_prs) = SelectSeq(SubSeq(pulls, 1, pi - 1), IsOpenedPr)
    /\ ItemsOf(closed_prs) = SelectSeq(SubSeq(pulls, 1, pi - 1), IsCompletedPr)
    /\ \A i \in 1..(pi - 1) :
          ~(\E k \in DOMAIN opened_prs : opened_prs[k] = pulls[i]
            /\ \E j \in DOMAIN closed_prs : closed_prs[j] = pulls[i])
    /\ Cardinality(DOMAIN opened_prs) + Cardinality(DOMAIN closed_prs) <= pi - 1

\* Window 2024-01-08 .. 2024-01-14: an open pull request created on
\* 2024-01-10 is in Opened, one created on 2024-01-01 is in neither list.
C9_Witness ==
    /\ start_day = <<2024, 1, 8>> /\ end_day = <<2024, 1, 14>>
    /\ pi = 3
    /\ pulls[1] = PullRequest(101, s_open, PStr(ts_in), PNone)
    /\ pulls[2] = PullRequest(101, s_open, PStr(ts_before), PNone)
    /\ ItemsOf(opened_prs) = <<pulls[1]>>
    /\ closed_prs = empty_dict

(***************************************************************************)
(* Properties of tablify_dict.                                             *)
(***************************************************************************)
\* C7: tablify_dict with an empty d and row_order=[] never raises, whatever
\* the other arguments: it returns the header line alone or the empty str.
C7_EmptyNeverRaises ==
    (DOMAIN tab_args.d = {} /\ tab_args.row_order = [seq |-> <<>>]
     /\ tab_pc \in {"raised", "done"})
    => /\ tab_pc = "done"
       /\ \A i \in 1..Len(table.str) : table.str[i] # "\n"

\* The width of cell j of a table row: the row-key column comes first.
WidthOfCell(j) == IF j = 1 THEN col_widths[Len(cols) + 1] ELSE col_widths[j - 1]

\* C8: once measured, every column is at least as wide as its header and as
\* the text of each measured row's value in it, and the row-key column at
\* least as wide as each measured row key; with the default formatter every
\* cell of the finished table has exactly its column's width.
C8_WidthsFit ==
    /\ tab_pc \in {"measure", "done"} =>
          /\ \A i \in 1..Len(cols) :
                /\ col_widths[i] >= Len(cols[i])
                /\ \A k \in 1..(rk - 1) :
                      col_widths[i] >= Len(StrOf(tab_args.d[rows[k]][cols[i]]))
          /\ \A k \in 1..(rk - 1) :
                col_widths[Len(cols) + 1] >= Len(StrOf(rows[k]))
    /\ (tab_pc = "done" /\ IsNone(tab_args.field_formatter)) =>
          \A k \in 1..Len(cells) : \A j \in 1..Len(cells[k]) :
             IsStr(cells[k][j]) /\ Len(cells[k][j].str) = WidthOfCell(j)

\* A finished two-row table with its header, default formatter: a value is
\* longer than its header and another is shorter than its column.
C8_Witness ==
    /\ tab_pc = "done" /\ IsNone(tab_args.field_formatter)
    /\ tab_args.show_header /\ Len(rows) = 2
    /\ \E i \in 1..Len(cols) :
          /\ col_widths[i] > Len(cols[i])
          /\ \E k \in 1..2 : Len(StrOf(tab_args.d[rows[k]][cols[i]])) < col_widths[i]
    /\ \E k \in 1..2 : Len(StrOf(rows[k])) < col_widths[Len(cols) + 1]
====
